---- MODULE Spec2Model ----
(***************************************************************************)
(* The dependency-tracking and staleness engine of src/core/derivation.ts. *)
(*                                                                         *)
(* The program is single threaded and re-entrant: a body run by            *)
(* trackDerivedFunction may read computed values, whose get() runs         *)
(* shouldCompute and trackDerivedFunction again.  The call stack is the    *)
(* variable `stack`; every action is the code of one function between two  *)
(* calls.  `ev` records what the last step did (its return value, and the  *)
(* calls bindDependencies made), which is what a caller resumes on.        *)
(***************************************************************************)
EXTENDS Integers, Sequences, FiniteSets, TLC

\* enum IDerivationState
NOT_TRACKING == -1
UP_TO_DATE == 0
POSSIBLY_STALE == 1
STALE == 2

Null == "null"

\* IDerivation.newObserving when it is null: a sequence no pass reports
NoBuffer == <<Null>>

\* The failures a body can raise.
Failures == {"e1"}

\* The objects of the model: one plain atom, two computed values (each an
\* observable and a derivation) and one reaction (a derivation only).
Atoms == {"A"}
Computeds == {"C1", "C2"}
Reactions == {"D"}
Observables == Atoms \cup Computeds
Derivations == Computeds \cup Reactions

\* What the body of each derivation may read: C1 is computed from the atom,
\* C2 from C1, and the reaction reads anything.
MayRead(d) ==
    IF d \in Reactions THEN Observables
    ELSE IF d = "C1" THEN Atoms
    ELSE {"C1"}

\* Bounds of the model: reads reported during one pass, tracking passes
\* started in one behaviour (the cap on globalState.runId), and the
\* computation depth the mutation guard is tried at.
MaxReads == 2
MaxRunId == 4
MaxDepth == 2

\* untracked scopes open inside one another
MaxNest == 2

VARIABLES
    observing,            \* IDerivation.observing
    newObserving,         \* IDerivation.newObserving: NoBuffer, or its first
                          \* unboundDepsCount entries (the reads reported so far)
    dependenciesState,    \* IDerivation.dependenciesState
    runId,                \* IDerivation.runId
    observers,            \* IObservable.observers, as the number of entries of each derivation
    diffValue,            \* IObservable.diffValue
    lowestObserverState,  \* IObservable.lowestObserverState
    trackingDerivation,   \* globalState.trackingDerivation
    globalRunId,          \* globalState.runId
    computationDepth,     \* globalState.computationDepth
    allowStateChanges,    \* globalState.allowStateChanges
    strictMode,           \* globalState.strictMode
    stack,                \* the call stack, innermost frame last
    ev                    \* the last step: what was called and what it returned

vars == <<observing, newObserving, dependenciesState, runId,
          observers, diffValue, lowestObserverState, trackingDerivation,
          globalRunId, computationDepth, allowStateChanges, strictMode, stack, ev>>

heap == <<observing, newObserving, dependenciesState, runId,
          observers, diffValue, lowestObserverState>>

globals == <<computationDepth, allowStateChanges, strictMode>>

----------------------------------------------------------------------------
\* Sequences

Range(s) == {s[i] : i \in 1..Len(s)}

Last(s) == s[Len(s)]

Front(s) == SubSeq(s, 1, Len(s) - 1)

Occurrences(s, x) == Cardinality({i \in 1..Len(s) : s[i] = x})

NoDuplicates(s) == \A i, j \in 1..Len(s) : s[i] = s[j] => i = j

\* s without its repeated entries, each entry kept where it first occurs
RECURSIVE OrderedUnique(_)
OrderedUnique(s) ==
    IF s = <<>> THEN <<>>
    ELSE LET r == OrderedUnique(Front(s))
         IN IF Last(s) \in Range(r) THEN r ELSE Append(r, Last(s))

----------------------------------------------------------------------------
\* class CaughtException

CaughtException(cause) == [kind |-> "CaughtException", cause |-> cause]

isCaughtException(e) == e.kind = "CaughtException"

\* a value that is no CaughtException
PlainValue == [kind |-> "value", cause |-> Null]

\* isComputedValue (core/computedvalue.ts)
isComputedValue(obj) == obj \in Computeds

----------------------------------------------------------------------------
\* core/observable.ts: the observer set of a cell and the propagation of
\* staleness to it.  The propagation walks the observer set; the use it makes
\* of lowestObserverState to return early is not modelled, so the floor is
\* written by changeDependenciesStateTo0 alone.

\* addObserver(observable, node)
addObserver(obsv, o, d) == [obsv EXCEPT ![o][d] = @ + 1]

\* removeObserver(observable, node)
removeObserver(obsv, o, d) ==
    [obsv EXCEPT ![o][d] = IF @ > 0 THEN @ - 1 ELSE 0]

ObserversOf(obsv, o) == {d \in Derivations : obsv[o][d] > 0}

ObserversLength(obsv, o) ==
    LET RECURSIVE Sum(_)
        Sum(S) == IF S = {} THEN 0
                  ELSE LET d == CHOOSE x \in S : TRUE
                       IN obsv[o][d] + Sum(S \ {d})
    IN Sum(Derivations)

\* propagateMaybeChanged(observable) for every observable of `work`: an
\* up-to-date observer becomes possibly stale and its onBecomeStale runs,
\* which for a computed value is propagateMaybeChanged of that value.
RECURSIVE propagateMaybeChanged(_, _, _)
propagateMaybeChanged(work, obsv, ds) ==
    IF work = {} THEN ds
    ELSE LET o == CHOOSE x \in work : TRUE
             hit == {d \in ObserversOf(obsv, o) : ds[d] = UP_TO_DATE}
         IN propagateMaybeChanged(
                (work \ {o}) \cup (hit \cap Computeds), obsv,
                [d \in Derivations |-> IF d \in hit THEN POSSIBLY_STALE ELSE ds[d]])

\* derivation.onBecomeStale(): a computed value propagates "maybe changed" to
\* its own observers; a reaction schedules itself, which changes nothing here.
onBecomeStale(D, obsv, ds) == propagateMaybeChanged(D \cap Computeds, obsv, ds)

\* propagateChanged(observable): every observer becomes stale; the observers
\* that were up to date are told first.
propagateChanged(o, obsv, ds) ==
    LET obs == ObserversOf(obsv, o)
        told == onBecomeStale({d \in obs : ds[d] = UP_TO_DATE}, obsv, ds)
    IN [d \in Derivations |-> IF d \in obs THEN STALE ELSE told[d]]

\* propagateChangeConfirmed(observable): a possibly stale observer becomes stale
propagateChangeConfirmed(o, obsv, ds) ==
    [d \in Derivations |->
        IF d \in ObserversOf(obsv, o) /\ ds[d] = POSSIBLY_STALE THEN STALE
        ELSE ds[d]]

\* reportObserved(observable): the read is appended to the pending reads of
\* the tracking derivation, if there is one.
reportObserved(o) ==
    IF trackingDerivation # Null
    THEN newObserving' = [newObserving EXCEPT ![trackingDerivation] = Append(@, o)]
    ELSE UNCHANGED newObserving

----------------------------------------------------------------------------
\* core/derivation.ts

\* Faulty variant of changeDependenciesStateTo0: the floors are left alone
changeDependenciesStateTo0NoFloor(d, obsg, ds, los) ==
    [dependenciesState |-> [ds EXCEPT ![d] = UP_TO_DATE],
     lowestObserverState |-> los]

\* changeDependenciesStateTo0(derivation)
changeDependenciesStateTo0(d, obsg, ds, los) ==
    IF ds[d] = UP_TO_DATE
    THEN [dependenciesState |-> ds, lowestObserverState |-> los]
    ELSE [dependenciesState |-> [ds EXCEPT ![d] = UP_TO_DATE],
          lowestObserverState |->
             [o \in Observables |->
                IF o \in Range(obsg[d]) THEN UP_TO_DATE ELSE los[o]]]

\* IDerivation.unboundDepsCount while a pass is in flight.  After the pass the
\* field keeps its last value, which nothing reads before line 129 resets it.
unboundDepsCount(d) == Len(newObserving[d])

\* untrackedStart(): the value it returns; it sets trackingDerivation to null
untrackedStart == trackingDerivation

\* Faulty variant of untrackedStartTracking: the derivation stays current
untrackedStartKeep(prev) == prev

\* untrackedStart(), line 229: the value trackingDerivation takes
untrackedStartTracking(prev) == Null

\* Faulty variant of untrackedEnd: the previous derivation is not put back
untrackedEndForget(prev) == Null

\* untrackedEnd(prev): the value trackingDerivation takes
untrackedEnd(prev) == prev

\* bindDependencies, first loop: the new reads buf[1..l] without their
\* repeated entries, each marked 1, and the highest state of a read derivation
RECURSIVE bindDedup(_, _, _, _, _, _)
bindDedup(buf, i, dv, ds, kept, low) ==
    IF i > Len(buf)
    THEN [observing |-> kept, diffValue |-> dv, lowest |-> low]
    ELSE LET dep == buf[i]
             up == IF dep \in Derivations /\ ds[dep] > low THEN ds[dep] ELSE low
         IN IF dv[dep] = 0
            THEN bindDedup(buf, i + 1, [dv EXCEPT ![dep] = 1], ds, Append(kept, dep), up)
            ELSE bindDedup(buf, i + 1, dv, ds, kept, up)

\* Faulty variant of the first loop: every read is kept, repeated or not
bindFirstLoopKeepAll(buf, dv, ds) ==
    [observing |-> buf,
     diffValue |-> [o \in Observables |-> IF o \in Range(buf) THEN 1 ELSE dv[o]],
     lowest |-> bindDedup(buf, 1, dv, ds, <<>>, UP_TO_DATE).lowest]

bindFirstLoop(buf, dv, ds) == bindDedup(buf, 1, dv, ds, <<>>, UP_TO_DATE)

\* second loop, from the last previous dependency to the first: one whose
\* mark is 0 is unobserved; every mark is reset
RECURSIVE bindUnobserve(_, _, _, _, _, _)
bindUnobserve(prev, l, d, dv, obsv, removed) ==
    IF l = 0
    THEN [diffValue |-> dv, observers |-> obsv, removed |-> removed]
    ELSE LET dep == prev[l]
         IN bindUnobserve(prev, l - 1, d, [dv EXCEPT ![dep] = 0],
               IF dv[dep] = 0 THEN removeObserver(obsv, dep, d) ELSE obsv,
               IF dv[dep] = 0 THEN Append(removed, dep) ELSE removed)

\* Faulty variant of the second loop: the marks are reset, nothing is unobserved
bindSecondLoopKeep(prev, d, dv, obsv) ==
    [diffValue |-> [o \in Observables |-> IF o \in Range(prev) THEN 0 ELSE dv[o]],
     observers |-> obsv,
     removed |-> <<>>]

bindSecondLoop(prev, d, dv, obsv) == bindUnobserve(prev, Len(prev), d, dv, obsv, <<>>)

\* third loop, from the last new dependency to the first: one whose mark is
\* still 1 is observed and its mark reset
RECURSIVE bindObserve(_, _, _, _, _, _)
bindObserve(obs, i0, d, dv, obsv, added) ==
    IF i0 = 0
    THEN [diffValue |-> dv, observers |-> obsv, added |-> added]
    ELSE LET dep == obs[i0]
         IN IF dv[dep] = 1
            THEN bindObserve(obs, i0 - 1, d, [dv EXCEPT ![dep] = 0],
                    addObserver(obsv, dep, d), Append(added, dep))
            ELSE bindObserve(obs, i0 - 1, d, dv, obsv, added)

\* Faulty variant of the third loop: every new dependency is observed, kept
\* from the previous list or not
bindThirdLoopAll(obs, d, dv, obsv) ==
    [diffValue |-> [o \in Observables |-> IF o \in Range(obs) THEN 0 ELSE dv[o]],
     observers |-> [o \in Observables |->
                      IF o \in Range(obs) THEN [obsv[o] EXCEPT ![d] = @ + 1]
                      ELSE obsv[o]],
     added |-> obs]

\* Faulty variant of the third loop: the marks of the cells it observes are
\* left at 1
bindThirdLoopKeepMarks(obs, d, dv, obsv) ==
    [bindObserve(obs, Len(obs), d, dv, obsv, <<>>) EXCEPT !.diffValue = dv]

bindThirdLoop(obs, d, dv, obsv) == bindObserve(obs, Len(obs), d, dv, obsv, <<>>)

\* Faulty variant of bindStaleness: the state of the new dependencies is
\* not taken over
bindStalenessNever(d, lowest, obsv, ds) ==
    [dependenciesState |-> ds, stale |-> 0]

\* the end of bindDependencies, lines 204-207: the state taken from the new
\* dependencies, and the number of calls of onBecomeStale
bindStaleness(d, lowest, obsv, ds) ==
    IF lowest # UP_TO_DATE
    THEN [dependenciesState |-> onBecomeStale({d}, obsv, [ds EXCEPT ![d] = lowest]),
          stale |-> 1]
    ELSE [dependenciesState |-> ds, stale |-> 0]

\* bindDependencies(derivation): the heap it leaves, and the calls it made
bindDependencies(d) ==
    LET prevObserving == observing[d]
        buf == SubSeq(newObserving[d], 1, unboundDepsCount(d))
        l1 == bindFirstLoop(buf, diffValue, dependenciesState)
        l2 == bindSecondLoop(prevObserving, d, l1.diffValue, observers)
        l3 == bindThirdLoop(l1.observing, d, l2.diffValue, l2.observers)
        st == bindStaleness(d, l1.lowest, l3.observers, dependenciesState)
    IN [observing |-> [observing EXCEPT ![d] = l1.observing],
        newObserving |-> [newObserving EXCEPT ![d] = NoBuffer],
        diffValue |-> l3.diffValue,
        observers |-> l3.observers,
        dependenciesState |-> st.dependenciesState,
        removed |-> l2.removed,
        added |-> l3.added,
        stale |-> st.stale,
        lowest |-> l1.lowest]

\* Faulty variant of the guard: allowStateChanges is looked at first
checkIfStateModificationsAreAllowedFlagFirst(hasObservers, depth, allow, strict) ==
    IF ~allow /\ hasObservers THEN (IF strict THEN "m030a" ELSE "m030b")
    ELSE IF depth > 0 /\ hasObservers THEN "m031"
    ELSE "ok"

\* checkIfStateModificationsAreAllowed(atom): "ok", or the message of the failure
checkIfStateModificationsAreAllowed(hasObservers, depth, allow, strict) ==
    IF depth > 0 /\ hasObservers THEN "m031"
    ELSE IF ~allow /\ hasObservers THEN (IF strict THEN "m030a" ELSE "m030b")
    ELSE "ok"

----------------------------------------------------------------------------
\* The call stack and the record of the last step

Frame(kind, d, phase) ==
    [kind |-> kind, d |-> d, phase |-> phase,
     prev |-> Null,       \* prevTracking (trackDerivedFunction), prevUntracked (shouldCompute)
     entry |-> trackingDerivation,   \* globalState.trackingDerivation at the call
     obs |-> <<>>,        \* shouldCompute: obs, the list it scans
     i |-> 0,             \* shouldCompute: the index of the dependency being forced
     forced |-> <<>>,     \* shouldCompute: the dependencies it called get() on
     run |-> 0,           \* shouldCompute: derivation.runId at the call
     nested |-> 0]        \* untracked: the depth of the scopes that returned inside

\* the cells on which removeObserver and addObserver were called more than
\* once together (twice the same, or both)
Redundant(removed, added) ==
    {o \in Observables : Occurrences(removed, o) + Occurrences(added, o) > 1}

\* op and d: the function that returned and its argument; ret: the boolean
\* of shouldCompute (of clearObserving: the derivation was NOT_TRACKING
\* already); result: the value of trackDerivedFunction and of get;
\* threw, cause: the failure the call raised; entry: trackingDerivation when
\* the call was made; forced: the dependencies shouldCompute called get() on;
\* reads: the reads reported during the pass; removed, added, redundant: the
\* calls of removeObserver and of addObserver, and the cells on which they
\* were redundant; stale: the calls of onBecomeStale; nested: the depth of
\* the untracked scopes that returned, the returning one included
NoEv ==
    [op |-> "none", d |-> Null, ret |-> FALSE, result |-> PlainValue,
     threw |-> FALSE, cause |-> Null, entry |-> Null, forced |-> <<>>,
     reads |-> 0, removed |-> 0, added |-> 0, redundant |-> {}, stale |-> 0,
     nested |-> 0]

Top == stack[Len(stack)]

Below == SubSeq(stack, 1, Len(stack) - 1)

InFlight(d) == \E k \in 1..Len(stack) : stack[k].d = d

\* user code is running: the program outside any derivation, or a body
InBody == IF stack = <<>> THEN TRUE ELSE Top.kind = "track"

CanReport ==
    IF trackingDerivation = Null THEN TRUE
    ELSE Len(newObserving[trackingDerivation]) < MaxReads

\* IObservable.lowestObserverState of a new cell: an atom is made with
\* NOT_TRACKING (core/atom.ts), a computed value with UP_TO_DATE
\* (core/computedvalue.ts)
InitialFloor(o) == IF o \in Atoms THEN NOT_TRACKING ELSE UP_TO_DATE

Init ==
    /\ observing = [d \in Derivations |-> <<>>]
    /\ newObserving = [d \in Derivations |-> NoBuffer]
    /\ dependenciesState = [d \in Derivations |-> NOT_TRACKING]
    /\ runId = [d \in Derivations |-> 0]
    /\ observers = [o \in Observables |-> [d \in Derivations |-> 0]]
    /\ diffValue = [o \in Observables |-> 0]
    /\ lowestObserverState = [o \in Observables |-> InitialFloor(o)]
    /\ trackingDerivation = Null
    /\ globalRunId = 0
    /\ computationDepth = 0
    /\ allowStateChanges = TRUE
    /\ strictMode = FALSE
    /\ stack = <<>>
    /\ ev = NoEv

----------------------------------------------------------------------------
\* trackDerivedFunction

\* Faulty variant of mintRunId: the counter is read, not increased
mintRunIdStale(g) == g

\* line 130: ++globalState.runId
mintRunId(g) == g + 1

\* lines 127-132: up to the call of the body, on the stack `base`
trackDerivedFunctionBegin(d, base) ==
    LET z == changeDependenciesStateTo0(d, observing, dependenciesState,
                                        lowestObserverState)
    IN /\ globalRunId < MaxRunId
       /\ dependenciesState' = z.dependenciesState
       /\ lowestObserverState' = z.lowestObserverState
       /\ newObserving' = [newObserving EXCEPT ![d] = <<>>]
       /\ globalRunId' = mintRunId(globalRunId)
       /\ runId' = [runId EXCEPT ![d] = mintRunId(globalRunId)]
       /\ trackingDerivation' = d
       /\ stack' = Append(base, [Frame("track", d, "body") EXCEPT
                                   !.prev = trackingDerivation])
       /\ ev' = NoEv
       /\ UNCHANGED <<observing, observers, diffValue>>

\* Faulty variant of trackResult: the failure of the body is lost
trackResultSwallow(outcome) ==
    [result |-> PlainValue, threw |-> FALSE, cause |-> Null]

\* lines 133-138 and 141: what the call gives its caller when the body
\* returned ("ok") or raised the failure `outcome`
trackResult(outcome) ==
    [result |-> IF outcome \in Failures THEN CaughtException(outcome)
                ELSE PlainValue,
     threw |-> FALSE, cause |-> Null]

\* Faulty variant of trackBind: a body that raised leaves its reads unbound
trackBindUnlessFailed(d, outcome) ==
    IF outcome \in Failures
    THEN [observing |-> observing, newObserving |-> newObserving,
          diffValue |-> diffValue, observers |-> observers,
          dependenciesState |-> dependenciesState,
          removed |-> <<>>, added |-> <<>>, stale |-> 0, lowest |-> UP_TO_DATE]
    ELSE bindDependencies(d)

\* lines 139-140: the heap after the body ended with `outcome`
trackBind(d, outcome) == bindDependencies(d)

\* lines 133-141: the body ended
trackDerivedFunctionEnd(outcome) ==
    LET d == Top.d
        b == trackBind(d, outcome)
        r == trackResult(outcome)
    IN /\ trackingDerivation' = Top.prev
       /\ observing' = b.observing
       /\ newObserving' = b.newObserving
       /\ diffValue' = b.diffValue
       /\ observers' = b.observers
       /\ dependenciesState' = b.dependenciesState
       /\ stack' = Below
       /\ ev' = [NoEv EXCEPT !.op = "track", !.d = d, !.result = r.result,
                             !.threw = r.threw, !.cause = r.cause,
                             !.entry = Top.entry,
                             !.reads = unboundDepsCount(d),
                             !.removed = Len(b.removed),
                             !.added = Len(b.added),
                             !.redundant = Redundant(b.removed, b.added),
                             !.stale = b.stale]
       /\ UNCHANGED <<runId, globalRunId, lowestObserverState>>

\* a reaction is tracked (Reaction.track)
TrackReaction(r) ==
    /\ stack = <<>>
    /\ trackDerivedFunctionBegin(r, stack)
    /\ UNCHANGED globals

\* the body returns
BodyReturn ==
    /\ stack # <<>> /\ Top.kind = "track"
    /\ trackDerivedFunctionEnd("ok")
    /\ UNCHANGED globals

\* the body raises e
BodyRaise(e) ==
    /\ stack # <<>> /\ Top.kind = "track"
    /\ trackDerivedFunctionEnd(e)
    /\ UNCHANGED globals

\* the body reads a plain atom
BodyRead(a) ==
    /\ stack # <<>> /\ Top.kind = "track"
    /\ a \in MayRead(Top.d)
    /\ CanReport
    /\ reportObserved(a)
    /\ ev' = NoEv
    /\ UNCHANGED <<observing, dependenciesState, runId, observers, diffValue,
                   lowestObserverState, trackingDerivation, globalRunId,
                   globals, stack>>

----------------------------------------------------------------------------
\* shouldCompute

\* Faulty variant of shouldComputeDecide: every derivation has to compute
shouldComputeDecideEager(state) == TRUE

\* lines 71-76: the answer for a state that is not POSSIBLY_STALE
shouldComputeDecide(state) ==
    CASE state = UP_TO_DATE -> FALSE
      [] state = NOT_TRACKING -> TRUE
      [] state = STALE -> TRUE

\* lines 81-83: the index of the first computed value after obs[i], or 0
NextComputed(obs, i) ==
    IF \E j \in (i + 1)..Len(obs) : isComputedValue(obs[j])
    THEN CHOOSE j \in (i + 1)..Len(obs) :
            /\ isComputedValue(obs[j])
            /\ \A k \in (i + 1)..(j - 1) : ~isComputedValue(obs[k])
    ELSE 0

\* Faulty variant of shouldComputeStop: the derivation's own state is not
\* looked at again
shouldComputeStopOnFailure(threw, state) == threw

\* lines 86-96: after obj.get() threw or returned, with the derivation's own
\* state as it is now: TRUE when shouldCompute returns true, FALSE when the
\* loop goes on
shouldComputeStop(threw, state) ==
    IF threw THEN TRUE ELSE state = STALE

\* lines 88-89, 94-95: untrackedEnd(prevUntracked); return true
shouldComputeTrue(f, base) ==
    /\ trackingDerivation' = untrackedEnd(f.prev)
    /\ stack' = base
    /\ ev' = [NoEv EXCEPT !.op = "shouldCompute", !.d = f.d, !.ret = TRUE,
                          !.entry = f.entry, !.forced = f.forced]
    /\ UNCHANGED <<dependenciesState, lowestObserverState>>

\* Faulty variant of shouldComputeFalse: the derivation is not made up to date
shouldComputeFalseKeepState(f, base) ==
    /\ trackingDerivation' = untrackedEnd(f.prev)
    /\ stack' = base
    /\ ev' = [NoEv EXCEPT !.op = "shouldCompute", !.d = f.d, !.ret = FALSE,
                          !.entry = f.entry, !.forced = f.forced]
    /\ UNCHANGED <<dependenciesState, lowestObserverState>>

\* lines 99-101: the loop ended
shouldComputeFalse(f, base) ==
    LET z == changeDependenciesStateTo0(f.d, observing, dependenciesState,
                                        lowestObserverState)
    IN /\ dependenciesState' = z.dependenciesState
       /\ lowestObserverState' = z.lowestObserverState
       /\ trackingDerivation' = untrackedEnd(f.prev)
       /\ stack' = base
       /\ ev' = [NoEv EXCEPT !.op = "shouldCompute", !.d = f.d, !.ret = FALSE,
                             !.entry = f.entry, !.forced = f.forced]

\* lines 81-85: the loop from the entry after obs[f.i] to the next obj.get()
shouldComputeScan(f, base, tracking) ==
    LET j == NextComputed(f.obs, f.i)
        g == [f EXCEPT !.i = j, !.phase = "wait", !.forced = Append(@, f.obs[j])]
    IN IF j = 0 THEN shouldComputeFalse(f, base)
       ELSE /\ stack' = base \o <<g, Frame("get", f.obs[j], "enter")>>
            /\ trackingDerivation' = tracking
            /\ ev' = NoEv
            /\ UNCHANGED <<dependenciesState, lowestObserverState>>

\* shouldCompute(derivation), called with `base` as the caller's stack
shouldCompute(d, base) ==
    IF dependenciesState[d] # POSSIBLY_STALE
    THEN /\ ev' = [NoEv EXCEPT !.op = "shouldCompute", !.d = d,
                               !.ret = shouldComputeDecide(dependenciesState[d]),
                               !.entry = trackingDerivation]
         /\ stack' = base
         /\ UNCHANGED <<dependenciesState, lowestObserverState, trackingDerivation>>
    ELSE shouldComputeScan([Frame("sc", d, "scan") EXCEPT
                               !.prev = untrackedStart, !.obs = observing[d],
                               !.run = runId[d]],
                           base, Null)

\* a reaction asks whether it has to run (Reaction.runReaction)
ReactionShouldCompute(r) ==
    /\ stack = <<>>
    /\ shouldCompute(r, <<>>)
    /\ UNCHANGED <<observing, newObserving, runId, observers,
                   diffValue, globalRunId, globals>>

\* obj.get() came back to the loop of shouldCompute
ShouldComputeResume ==
    /\ stack # <<>> /\ Top.kind = "sc" /\ Top.phase = "wait" /\ ev.op = "get"
    /\ IF shouldComputeStop(ev.threw, dependenciesState[Top.d])
       THEN shouldComputeTrue(Top, Below)
       ELSE shouldComputeScan(Top, Below, trackingDerivation)
    /\ UNCHANGED <<observing, newObserving, runId, observers,
                   diffValue, globalRunId, globals>>

----------------------------------------------------------------------------
\* ComputedValue.get (core/computedvalue.ts)

\* a body reads a computed value: reportObserved(this)
BodyGet(c) ==
    /\ stack # <<>> /\ Top.kind = "track"
    /\ c \in MayRead(Top.d)
    /\ CanReport
    /\ reportObserved(c)
    /\ stack' = Append(stack, Frame("get", c, "enter"))
    /\ ev' = NoEv
    /\ UNCHANGED <<observing, dependenciesState, runId, observers, diffValue,
                   lowestObserverState, trackingDerivation, globalRunId,
                   globals>>

\* get: shouldCompute(this)
GetShouldCompute ==
    /\ stack # <<>> /\ Top.kind = "get" /\ Top.phase = "enter"
    /\ shouldCompute(Top.d, Append(Below, [Top EXCEPT !.phase = "sc"]))
    /\ UNCHANGED <<observing, newObserving, runId, observers,
                   diffValue, globalRunId, globals>>

\* get: shouldCompute said true; computeValue runs the body under
\* trackDerivedFunction, one computation deeper
GetCompute ==
    /\ stack # <<>> /\ Top.kind = "get" /\ Top.phase = "sc"
    /\ ev.op = "shouldCompute" /\ ev.ret = TRUE
    /\ trackDerivedFunctionBegin(Top.d, Append(Below, [Top EXCEPT !.phase = "track"]))
    /\ computationDepth' = computationDepth + 1
    /\ UNCHANGED <<allowStateChanges, strictMode>>

\* what get() gives its caller when the value it holds is v: v, or the
\* failure v has caught
getResult(c, v) ==
    [NoEv EXCEPT !.op = "get", !.d = c,
                 !.result = IF isCaughtException(v) THEN PlainValue ELSE v,
                 !.threw = isCaughtException(v),
                 !.cause = IF isCaughtException(v) THEN v.cause ELSE Null]

\* get: the body ended; the result is kept, and confirmed as a change to the
\* observers when it differs from the value held before
GetComputed(changed) ==
    /\ stack # <<>> /\ Top.kind = "get" /\ Top.phase = "track"
    /\ ev.op = "track"
    /\ computationDepth' = computationDepth - 1
    /\ dependenciesState' =
          IF changed
          THEN propagateChangeConfirmed(Top.d, observers, dependenciesState)
          ELSE dependenciesState
    /\ stack' = Below
    /\ ev' = getResult(Top.d, ev.result)
    /\ UNCHANGED <<observing, newObserving, runId, observers, diffValue,
                   lowestObserverState, trackingDerivation, globalRunId,
                   allowStateChanges, strictMode>>

\* get: shouldCompute said false; the value held, v, is given.  Which value
\* a computed value holds is not part of the state: any is possible.
GetCached(v) ==
    /\ stack # <<>> /\ Top.kind = "get" /\ Top.phase = "sc"
    /\ ev.op = "shouldCompute" /\ ev.ret = FALSE
    /\ stack' = Below
    /\ ev' = getResult(Top.d, v)
    /\ UNCHANGED <<heap, trackingDerivation, globalRunId, globals>>

----------------------------------------------------------------------------
\* clearObserving and the mutation of an atom

\* Faulty variant of clearLoop: the loop stops before the first entry
clearLoopButFirst(obs, i, d, obsv, removed) ==
    [observers |-> [o \in Observables |->
                      IF \E k \in 2..i : obs[k] = o
                      THEN [obsv[o] EXCEPT ![d] = 0] ELSE obsv[o]],
     removed |-> removed \o SubSeq(obs, 2, i)]

\* clearObserving, lines 214-215: removeObserver from the last entry to the first
RECURSIVE clearLoop(_, _, _, _, _)
clearLoop(obs, i, d, obsv, removed) ==
    IF i = 0 THEN [observers |-> obsv, removed |-> removed]
    ELSE clearLoop(obs, i - 1, d, removeObserver(obsv, obs[i], d),
                   Append(removed, obs[i]))

\* Faulty variant of clearObserving: derivation.observing is not emptied
clearObservingKeepList(d) ==
    LET l == clearLoop(observing[d], Len(observing[d]), d, observers, <<>>)
    IN [observing |-> observing,
        observers |-> l.observers,
        dependenciesState |-> [dependenciesState EXCEPT ![d] = NOT_TRACKING],
        removed |-> l.removed]

\* clearObserving(derivation)
clearObserving(d) ==
    LET l == clearLoop(observing[d], Len(observing[d]), d, observers, <<>>)
    IN [observing |-> [observing EXCEPT ![d] = <<>>],
        observers |-> l.observers,
        dependenciesState |-> [dependenciesState EXCEPT ![d] = NOT_TRACKING],
        removed |-> l.removed]

\* a reaction is disposed of, or a computed value that nothing observes any
\* more is suspended
ClearObserving(d) ==
    /\ stack = <<>>
    /\ d \in Computeds => ObserversLength(observers, d) = 0
    /\ LET c == clearObserving(d)
       IN /\ observing' = c.observing
          /\ observers' = c.observers
          /\ dependenciesState' = c.dependenciesState
          /\ ev' = [NoEv EXCEPT !.op = "clear", !.d = d,
                                !.ret = (dependenciesState[d] = NOT_TRACKING),
                                !.removed = Len(c.removed),
                                !.redundant = Redundant(c.removed, <<>>)]
    /\ UNCHANGED <<newObserving, runId, diffValue,
                   lowestObserverState, trackingDerivation, globalRunId,
                   globals, stack>>

\* an atom is set: the mutation guard, then propagateChanged; when the guard
\* fails nothing is changed
Mutate(a) ==
    /\ InBody
    /\ LET m == checkIfStateModificationsAreAllowed(
                    ObserversLength(observers, a) > 0, computationDepth,
                    allowStateChanges, strictMode)
       IN /\ dependenciesState' =
                IF m = "ok"
                THEN propagateChanged(a, observers, dependenciesState)
                ELSE dependenciesState
          /\ ev' = IF m = "ok" THEN NoEv
                   ELSE [NoEv EXCEPT !.op = "set", !.d = a, !.threw = TRUE,
                                     !.cause = m]
    /\ UNCHANGED <<observing, newObserving, runId, observers, diffValue,
                   lowestObserverState, trackingDerivation, globalRunId,
                   globals, stack>>

----------------------------------------------------------------------------
\* untracked(action)

\* user code is running: the program outside any derivation, a body, or the
\* action of an untracked scope
InUserCode == IF stack = <<>> THEN TRUE ELSE Top.kind \in {"track", "untracked"}

\* the untracked scopes that are open
UntrackedDepth == Cardinality({k \in 1..Len(stack) : stack[k].kind = "untracked"})

\* the caller's stack when the scope on top ends after scopes nested n deep
\* returned inside it
UntrackedBelow(n) ==
    IF Below # <<>> /\ Below[Len(Below)].kind = "untracked"
    THEN [Below EXCEPT ![Len(Below)].nested = IF @ > n + 1 THEN @ ELSE n + 1]
    ELSE Below

\* line 221: const prev = untrackedStart(), and the action is called
UntrackedCall ==
    /\ InUserCode
    /\ UntrackedDepth < MaxNest
    /\ stack' = Append(stack, [Frame("untracked", Null, "action") EXCEPT
                                  !.prev = untrackedStart])
    /\ trackingDerivation' = untrackedStartTracking(trackingDerivation)
    /\ ev' = NoEv
    /\ UNCHANGED <<heap, globalRunId, globals>>

\* the action reads a plain atom
UntrackedRead(a) ==
    /\ stack # <<>> /\ Top.kind = "untracked"
    /\ CanReport
    /\ reportObserved(a)
    /\ ev' = NoEv
    /\ UNCHANGED <<observing, dependenciesState, runId, observers, diffValue,
                   lowestObserverState, trackingDerivation, globalRunId,
                   globals, stack>>

\* the action reads a computed value
UntrackedGet(c) ==
    /\ stack # <<>> /\ Top.kind = "untracked"
    /\ CanReport
    /\ reportObserved(c)
    /\ stack' = Append(stack, Frame("get", c, "enter"))
    /\ ev' = NoEv
    /\ UNCHANGED <<observing, dependenciesState, runId, observers, diffValue,
                   lowestObserverState, trackingDerivation, globalRunId,
                   globals>>

\* lines 222-224: the action returned; untrackedEnd(prev); return res
UntrackedReturn ==
    /\ stack # <<>> /\ Top.kind = "untracked"
    /\ trackingDerivation' = untrackedEnd(Top.prev)
    /\ stack' = UntrackedBelow(Top.nested)
    /\ ev' = [NoEv EXCEPT !.op = "untracked", !.entry = Top.entry,
                          !.nested = Top.nested + 1]
    /\ UNCHANGED <<heap, globalRunId, globals>>

\* line 222: the action raises e, which leaves untracked at once: line 223
\* is not reached
UntrackedRaise(e) ==
    /\ stack # <<>> /\ Top.kind = "untracked"
    /\ stack' = Below
    /\ ev' = [NoEv EXCEPT !.op = "untracked", !.entry = Top.entry,
                          !.threw = TRUE, !.cause = e]
    /\ UNCHANGED <<heap, trackingDerivation, globalRunId, globals>>

----------------------------------------------------------------------------
Next ==
    \/ \E r \in Reactions : TrackReaction(r)
    \/ BodyReturn
    \/ \E e \in Failures : BodyRaise(e)
    \/ \E a \in Atoms : BodyRead(a)
    \/ \E c \in Computeds : BodyGet(c)
    \/ GetShouldCompute
    \/ GetCompute
    \/ \E changed \in BOOLEAN : GetComputed(changed)
    \/ \E v \in {PlainValue} \cup {CaughtException(e) : e \in Failures} : GetCached(v)
    \/ \E r \in Reactions : ReactionShouldCompute(r)
    \/ ShouldComputeResume
    \/ \E d \in Derivations : ClearObserving(d)
    \/ \E a \in Atoms : Mutate(a)

Spec == Init /\ [][Next]_vars

----------------------------------------------------------------------------
\* The mutation guard on its own.  checkIfStateModificationsAreAllowed reads
\* globalState.computationDepth, allowStateChanges and strictMode, which the
\* code of computed values and actions sets: here they are inputs, drawn at
\* the start, and the atom gets its observers from passes of the reaction.

GuardInit ==
    /\ observing = [d \in Derivations |-> <<>>]
    /\ newObserving = [d \in Derivations |-> NoBuffer]
    /\ dependenciesState = [d \in Derivations |-> NOT_TRACKING]
    /\ runId = [d \in Derivations |-> 0]
    /\ observers = [o \in Observables |-> [d \in Derivations |-> 0]]
    /\ diffValue = [o \in Observables |-> 0]
    /\ lowestObserverState = [o \in Observables |-> InitialFloor(o)]
    /\ trackingDerivation = Null
    /\ globalRunId = 0
    /\ computationDepth \in 0..MaxDepth
    /\ allowStateChanges \in BOOLEAN
    /\ strictMode \in BOOLEAN
    /\ stack = <<>>
    /\ ev = NoEv

GuardNext ==
    \/ \E r \in Reactions : TrackReaction(r)
    \/ \E a \in Atoms : BodyRead(a)
    \/ BodyReturn
    \/ \E a \in Atoms : Mutate(a)

GuardSpec == GuardInit /\ [][GuardNext]_vars

----------------------------------------------------------------------------
\* Untracked scopes.  The bodies of the reaction and of the computed values,
\* and the program outside them, open untracked scopes, read inside them
\* and leave them by returning or by raising; a failure that leaves a scope
\* is caught by the code around it (any later step of that code) or goes on
\* (UntrackedRaise of the scope around it, BodyRaise of the body).  Computed
\* values are read inside the scopes only, so the ones read are those whose
\* body reads atoms.

UntrackedNext ==
    \/ \E r \in Reactions : TrackReaction(r)
    \/ BodyReturn
    \/ \E e \in Failures : BodyRaise(e)
    \/ \E a \in Atoms : BodyRead(a)
    \/ GetShouldCompute
    \/ GetCompute
    \/ \E changed \in BOOLEAN : GetComputed(changed)
    \/ \E v \in {PlainValue} \cup {CaughtException(e) : e \in Failures} : GetCached(v)
    \/ UntrackedCall
    \/ \E a \in Atoms : UntrackedRead(a)
    \/ \E c \in {x \in Computeds : MayRead(x) \subseteq Atoms} : UntrackedGet(c)
    \/ UntrackedReturn
    \/ \E e \in Failures : UntrackedRaise(e)

UntrackedSpec == Init /\ [][UntrackedNext]_vars

----------------------------------------------------------------------------
\* Steps the properties speak of

\* the tracking pass of d ends: its body returned or raised, and
\* trackDerivedFunction binds and returns
PassEnds(d) ==
    /\ stack # <<>>
    /\ Top.kind = "track" /\ Top.d = d
    /\ Len(stack') < Len(stack)

\* shouldCompute(d) is called, by the reaction's runner or by get()
ShouldComputeCalled(d) ==
    IF stack = <<>>
    THEN d \in Reactions /\ ReactionShouldCompute(d)
    ELSE Top.kind = "get" /\ Top.phase = "enter" /\ Top.d = d /\ GetShouldCompute

\* obj.get() came back to the loop of a shouldCompute
ScanResumes ==
    /\ stack # <<>>
    /\ Top.kind = "sc"
    /\ ShouldComputeResume

\* the body of a tracking pass raises e
BodyRaises(e) ==
    /\ stack # <<>>
    /\ Top.kind = "track"
    /\ Len(stack') < Len(stack)
    /\ BodyRaise(e)

\* a shouldCompute calls get() on a dependency: the frame of get() is put on
\* top of the frame of the scan
ScanForces ==
    /\ Len(stack') > Len(stack)
    /\ Len(stack') >= 2
    /\ stack'[Len(stack')].kind = "get" /\ stack'[Len(stack')].phase = "enter"
    /\ stack'[Len(stack') - 1].kind = "sc"

\* the highest dependenciesState among the derivations of the set S of
\* cells, UP_TO_DATE if it holds none
HighestState(S, ds) ==
    LET T == {ds[o] : o \in S \cap Derivations}
    IN IF T = {} THEN UP_TO_DATE
       ELSE CHOOSE m \in T : \A x \in T : x <= m

\* a tracking pass of d begins: trackDerivedFunction up to the call of the body
PassBegins(d) ==
    /\ Len(stack') = Len(stack) + 1
    /\ stack'[Len(stack')].kind = "track"
    /\ stack'[Len(stack')].d = d

\* changeDependenciesStateTo0(d) is called: at the start of a pass of d
\* (line 127) or at the end of a scan of d that found no change (line 99)
ForcedUpToDate(d) ==
    \/ PassBegins(d)
    \/ /\ dependenciesState[d] = POSSIBLY_STALE
       /\ ev'.op = "shouldCompute" /\ ev'.d = d /\ ~ev'.ret

\* a tracking pass of d is in flight
Tracking(d) == \E k \in 1..Len(stack) : stack[k].kind = "track" /\ stack[k].d = d

\* clearObserving(d) is called
Clears(d) ==
    /\ stack = <<>>
    /\ ClearObserving(d)

\* the action of the untracked scope on top reads o
ScopeReads(o) ==
    /\ stack # <<>>
    /\ Top.kind = "untracked"
    /\ IF o \in Atoms THEN UntrackedRead(o) ELSE UntrackedGet(o)

\* the untracked scope on top returns
ScopeReturns ==
    /\ stack # <<>>
    /\ Top.kind = "untracked"
    /\ UntrackedReturn

\* the action of the untracked scope on top raises e
ScopeRaises(e) ==
    /\ stack # <<>>
    /\ Top.kind = "untracked"
    /\ UntrackedRaise(e)

----------------------------------------------------------------------------
\* C1.  Subscription consistency: whenever no tracking pass is in flight for
\* a derivation d, d is among the observers of a cell if and only if the cell
\* is in d.observing, whatever passes (nested ones included) and calls of
\* clearObserving came before.
C1_SubscriptionConsistency ==
    \A d \in Derivations :
        newObserving[d] = NoBuffer =>
            \A o \in Observables :
                (observers[o][d] > 0) <=> (o \in Range(observing[d]))

\* the reaction had two dependencies and was cleared, while C1, computed in a
\* nested pass, still observes the atom
C1_Witness ==
    /\ stack = <<>>
    /\ ev.op = "clear" /\ ev.d = "D" /\ ev.removed = 2
    /\ observing["C1"] = <<"A">> /\ observers["A"]["C1"] = 1

C3_UnsubscribeOnDrop ==
    [][\A d \in Derivations :
          PassEnds(d) =>
              LET P == Range(observing[d])
                  N == Range(newObserving[d])
              IN /\ \A o \in P \ N : observers'[o][d] = 0
                 /\ \A o \in P \cap N :
                       observers'[o][d] > 0 /\ observers'[o][d] = observers[o][d]
                 /\ \A o \in N \ P : observers'[o][d] = observers[o][d] + 1
                 /\ ev'.removed = Cardinality(P \ N)
                 /\ ev'.added = Cardinality(N \ P)
                 /\ ev'.redundant = {}]_vars

\* a pass of the reaction dropped a dependency, kept one and took a new one
C3_Witness ==
    /\ ev.op = "track" /\ ev.d = "D"
    /\ ev.removed >= 1 /\ ev.added >= 1
    /\ Len(observing["D"]) > ev.added

\* C4.  Failure during tracking still binds: when the body raises, the
\* derivation's observing is the ordered list, without repetition, of the
\* cells read before the failure; it observes each of them and none of the
\* previous dependencies that were not read; and newObserving is null.
C4_FailureStillBinds ==
    [][\A e \in Failures :
          BodyRaises(e) =>
              LET d == Top.d
                  N == Range(newObserving[d])
              IN /\ observing'[d] = OrderedUnique(newObserving[d])
                 /\ \A o \in N : observers'[o][d] = 1
                 /\ \A o \in Range(observing[d]) \ N : observers'[o][d] = 0
                 /\ newObserving'[d] = NoBuffer]_vars

\* a body read a new cell and raised, and a previous dependency was dropped
C4_Witness ==
    /\ ev.op = "track" /\ isCaughtException(ev.result)
    /\ ev.reads >= 1 /\ ev.added >= 1 /\ ev.removed >= 1
    /\ newObserving[ev.d] = NoBuffer

\* C5, as the specification states it.  When the body raises a failure,
\* trackDerivedFunction raises that failure to its caller after binding.
C5_ReRaises ==
    [][\A e \in Failures :
          BodyRaises(e) => (ev'.op = "track" /\ ev'.threw /\ ev'.cause = e)]_vars

\* C5, as the code has it.  When the body raises a failure,
\* trackDerivedFunction raises nothing: after binding it returns a
\* CaughtException whose cause is that failure.
C5_ReturnsCaughtException ==
    [][\A e \in Failures :
          BodyRaises(e) =>
              /\ ev'.op = "track" /\ ev'.d = Top.d
              /\ ~ev'.threw
              /\ ev'.result = CaughtException(e)
              /\ newObserving'[Top.d] = NoBuffer]_vars

\* a pass whose body raised e1 has returned, its reads bound
C5_Witness ==
    /\ ev.op = "track" /\ ~ev.threw
    /\ ev.result = CaughtException("e1")
    /\ observing[ev.d] # <<>>

\* C6.  shouldCompute on a derivation that is not POSSIBLY_STALE is a pure
\* decision: false for UP_TO_DATE, true for NOT_TRACKING and STALE; it calls
\* get() on no dependency and changes nothing of the derivations, the cells
\* and globalState.trackingDerivation, so that calling it again gives the
\* same answer.
C6_ShouldComputePure ==
    [][\A d \in Derivations :
          (ShouldComputeCalled(d) /\ dependenciesState[d] # POSSIBLY_STALE) =>
              /\ ev'.op = "shouldCompute" /\ ev'.d = d
              /\ ev'.ret = (dependenciesState[d] \in {NOT_TRACKING, STALE})
              /\ ev'.forced = <<>>
              /\ Len(stack') = Len(stack)
              /\ UNCHANGED <<heap, trackingDerivation, globalRunId>>]_vars

\* the reaction, stale, was asked and answered true without a scan
C6_Witness ==
    /\ stack = <<>>
    /\ ev.op = "shouldCompute" /\ ev.d = "D" /\ ev.ret /\ ev.forced = <<>>
    /\ dependenciesState["D"] = STALE

\* C7.  No-op when nothing changed: when the scan of a POSSIBLY_STALE
\* derivation ends and no get() it called raised or left the derivation
\* STALE, shouldCompute returns false, the derivation is UP_TO_DATE, and no
\* pass was started for it (its runId is the one it had at the call).
C7_NoOpWhenNothingChanged ==
    [][(/\ ScanResumes
        /\ Len(stack') < Len(stack)
        /\ ~ev.threw
        /\ dependenciesState[Top.d] # STALE) =>
           /\ ev'.op = "shouldCompute" /\ ev'.d = Top.d
           /\ ~ev'.ret
           /\ dependenciesState'[Top.d] = UP_TO_DATE
           /\ runId'[Top.d] = Top.run]_vars

\* the reaction was scanned, a dependency was forced, and the answer is false
C7_Witness ==
    /\ stack = <<>>
    /\ ev.op = "shouldCompute" /\ ev.d = "D" /\ ~ev.ret /\ ev.forced # <<>>
    /\ dependenciesState["D"] = UP_TO_DATE

\* C8.  Order-sensitive short-circuit: whenever the scan of derivation D calls
\* get(), D is not STALE and the dependencies called so far are exactly the
\* computed values of D.observing up to that one, in the order of the list (a
\* plain cell is never called); and when D is STALE after a get() returned,
\* shouldCompute returns true at once, with no other dependency called.
C8_OrderSensitiveShortCircuit ==
    [][/\ ScanForces =>
              LET g == stack'[Len(stack') - 1]
                  dep == stack'[Len(stack')].d
              IN /\ g.obs = observing[g.d]
                 /\ g.i \in 1..Len(g.obs)
                 /\ g.obs[g.i] = dep
                 /\ g.forced = SelectSeq(SubSeq(g.obs, 1, g.i), isComputedValue)
                 /\ dependenciesState'[g.d] # STALE
       /\ (ScanResumes /\ ~ev.threw /\ dependenciesState[Top.d] = STALE) =>
              /\ ev'.op = "shouldCompute" /\ ev'.d = Top.d /\ ev'.ret
              /\ ev'.forced = Top.forced
              /\ stack' = Below]_vars

\* the reaction observes C1 then C2; forcing C1 made it stale and the answer
\* is true with C2 not forced
C8_Witness ==
    /\ stack = <<>>
    /\ observing["D"] = <<"C1", "C2">>
    /\ ev.op = "shouldCompute" /\ ev.d = "D" /\ ev.ret /\ ev.forced = <<"C1">>
    /\ dependenciesState["D"] = STALE

\* C9.  Dependency failure during the staleness check: when a get() called by
\* the scan raises, shouldCompute returns true and raises nothing, calls no
\* other dependency, leaves the derivation's state as it is (not UP_TO_DATE),
\* and globalState.trackingDerivation is what it was at the call.
C9_DependencyFailureDuringScan ==
    [][(ScanResumes /\ ev.threw) =>
           /\ ev'.op = "shouldCompute" /\ ev'.d = Top.d
           /\ ev'.ret /\ ~ev'.threw
           /\ ev'.forced = Top.forced
           /\ stack' = Below
           /\ dependenciesState' = dependenciesState
           /\ dependenciesState'[Top.d] # UP_TO_DATE
           /\ trackingDerivation' = Top.entry]_vars

\* inside the body of the reaction, get() of C2 scanned C2, C1 raised, and the
\* answer is true with the reaction tracking again
C9_Witness ==
    /\ ev.op = "shouldCompute" /\ ev.d = "C2" /\ ev.ret /\ ev.forced = <<"C1">>
    /\ ev.entry = "D" /\ trackingDerivation = "D"
    /\ dependenciesState["C2"] = POSSIBLY_STALE

\* C10.  Mutation guard: setting an atom fails if and only if the atom has an
\* observer and computationDepth > 0 or allowStateChanges is false; with
\* computationDepth > 0 the failure is m031, whatever allowStateChanges is;
\* the check changes no global state, and a rejected mutation changes nothing.
C10_MutationGuard ==
    [][\A a \in Atoms :
          Mutate(a) =>
              LET has == ObserversLength(observers, a) > 0
              IN /\ ev'.threw <=>
                       (has /\ (computationDepth > 0 \/ ~allowStateChanges))
                 /\ (has /\ computationDepth > 0) => ev'.cause = "m031"
                 /\ (has /\ computationDepth = 0 /\ ~allowStateChanges) =>
                       ev'.cause = IF strictMode THEN "m030a" ELSE "m030b"
                 /\ UNCHANGED globals
                 /\ ev'.threw =>
                       UNCHANGED <<heap, trackingDerivation, globalRunId, stack>>]_vars

\* an observed atom was set inside a computation with allowStateChanges
\* false: the failure is m031
C10_Witness ==
    /\ ev.op = "set" /\ ev.threw /\ ev.cause = "m031"
    /\ computationDepth > 0 /\ ~allowStateChanges
    /\ ObserversLength(observers, "A") > 0

\* C11.  Untracked transparency: while the action of an untracked scope runs,
\* globalState.trackingDerivation is null and a read made by the action adds
\* nothing to the pending reads or the dependency list of any derivation; and
\* a scope that returns, whatever scopes were nested inside it, leaves
\* trackingDerivation the derivation that was current when it was opened.
C11_UntrackedTransparency ==
    [][/\ (stack' # <<>> /\ stack'[Len(stack')].kind = "untracked") =>
              trackingDerivation' = Null
       /\ \A o \in Observables :
              ScopeReads(o) => (newObserving' = newObserving /\ observing' = observing)
       /\ ScopeReturns =>
              /\ trackingDerivation' = Top.entry
              /\ ev'.op = "untracked" /\ ~ev'.threw /\ ev'.entry = Top.entry]_vars

\* inside the body of the reaction a scope with a scope nested in it has
\* returned; C1 was read and computed in it; the reaction is current again
\* and has no pending read
C11_Witness ==
    /\ ev.op = "untracked" /\ ~ev.threw /\ ev.nested >= 2
    /\ ev.entry = "D" /\ trackingDerivation = "D"
    /\ runId["C1"] > runId["D"]
    /\ newObserving["D"] = <<>>

\* C12.  An untracked scope puts the previous tracking derivation back
\* whether or not its action fails: when the action raises,
\* globalState.trackingDerivation after the failure left untracked is what it
\* was before untracked was called.
C12_RestoresOnFailure ==
    [][\A e \in Failures :
          ScopeRaises(e) => trackingDerivation' = Top.entry]_vars

\* C13.  Disposal: clearObserving(d), called when no pass is in flight,
\* calls removeObserver once for each cell of the dependency list of d and
\* leaves d in the observers of no cell, d.observing empty and d
\* NOT_TRACKING; the lists, the states and the subscriptions of the other
\* derivations are unchanged; and on a derivation that is cleared already it
\* calls no removeObserver and changes nothing at all.
C13_Disposal ==
    [][\A d \in Derivations :
          Clears(d) =>
              /\ \A o \in Observables : observers'[o][d] = 0
              /\ observing'[d] = <<>>
              /\ dependenciesState'[d] = NOT_TRACKING
              /\ ev'.removed = Len(observing[d])
              /\ ev'.redundant = {}
              /\ \A d2 \in Derivations \ {d} :
                    /\ observing'[d2] = observing[d2]
                    /\ dependenciesState'[d2] = dependenciesState[d2]
                    /\ \A o \in Observables : observers'[o][d2] = observers[o][d2]
              /\ (observing[d] = <<>> /\ dependenciesState[d] = NOT_TRACKING) =>
                    /\ ev'.removed = 0
                    /\ UNCHANGED <<heap, trackingDerivation, globalRunId,
                                   globals, stack>>]_vars

\* the reaction, tracked before and cleared, was cleared again: nothing was
\* removed, and C1 still has its dependency
C13_Witness ==
    /\ ev.op = "clear" /\ ev.d = "D" /\ ev.ret /\ ev.removed = 0
    /\ runId["D"] > 0
    /\ observing["C1"] = <<"A">> /\ observers["A"]["C1"] = 1

\* C14.  Tracking-context pairing: whatever is nested in the body of a
\* tracking pass, whenever the body goes on running at the top level of the
\* pass globalState.trackingDerivation is the derivation of the pass, and
\* when the pass ends, its body having returned or raised,
\* trackingDerivation is what it was just before the call.
C14_TrackingContextPairing ==
    [][/\ (/\ stack # <<>>
           /\ Top.kind = "track"
           /\ \A e \in Failures : ~BodyRaises(e)) => trackingDerivation = Top.d
       /\ \A d \in Derivations :
              PassEnds(d) => trackingDerivation' = Top.entry]_vars

C16_BindOnlyRaises ==
    [][\A d \in Derivations :
          PassEnds(d) => dependenciesState'[d] >= dependenciesState[d]]_vars

\* C17, as the specification states it.  After changeDependenciesStateTo0(d),
\* from any state of d, d is UP_TO_DATE and the lowestObserverState of every
\* cell of d's dependency list is UP_TO_DATE; the dependency lists, the
\* observer sets and the states of the other derivations are unchanged.
C17_ForceUpToDate ==
    [][\A d \in Derivations :
          ForcedUpToDate(d) =>
              /\ dependenciesState'[d] = UP_TO_DATE
              /\ \A o \in Range(observing[d]) : lowestObserverState'[o] = UP_TO_DATE
              /\ observing' = observing
              /\ observers' = observers
              /\ \A d2 \in Derivations \ {d} :
                    dependenciesState'[d2] = dependenciesState[d2]]_vars

\* C17, as the code has it.  After changeDependenciesStateTo0(d), d is
\* UP_TO_DATE; if d was not UP_TO_DATE before, the lowestObserverState of
\* every cell of d's dependency list is UP_TO_DATE and that of the other
\* cells is unchanged; if d was UP_TO_DATE already no lowestObserverState is
\* changed; the dependency lists, the observer sets and the states of the
\* other derivations are unchanged.
C17_ForceUpToDateUnlessUpToDate ==
    [][\A d \in Derivations :
          ForcedUpToDate(d) =>
              /\ dependenciesState'[d] = UP_TO_DATE
              /\ dependenciesState[d] # UP_TO_DATE =>
                    \A o \in Observables :
                        lowestObserverState'[o] =
                            IF o \in Range(observing[d]) THEN UP_TO_DATE
                            ELSE lowestObserverState[o]
              /\ dependenciesState[d] = UP_TO_DATE =>
                    lowestObserverState' = lowestObserverState
              /\ observing' = observing
              /\ observers' = observers
              /\ \A d2 \in Derivations \ {d} :
                    dependenciesState'[d2] = dependenciesState[d2]]_vars

\* the reaction, possibly stale and observing the atom, was scanned and made
\* up to date: the floor of the atom is UP_TO_DATE
C17_Witness ==
    /\ stack = <<>>
    /\ ev.op = "shouldCompute" /\ ev.d = "D" /\ ~ev.ret /\ ev.forced # <<>>
    /\ dependenciesState["D"] = UP_TO_DATE
    /\ "A" \in Range(observing["D"])
    /\ \A o \in Range(observing["D"]) : lowestObserverState[o] = UP_TO_DATE

\* C18.  In every state a derivation that is NOT_TRACKING has an empty
\* dependency list; a derivation that is tracked is UP_TO_DATE when its body
\* starts, is not NOT_TRACKING while its pass is in flight, and is not put
\* back into NOT_TRACKING by the bind step.
C18_NotTrackingHasNoDependencies ==
    [][/\ \A d \in Derivations :
              /\ dependenciesState[d] = NOT_TRACKING => observing[d] = <<>>
              /\ dependenciesState'[d] = NOT_TRACKING => observing'[d] = <<>>
              /\ Tracking(d) => dependenciesState[d] # NOT_TRACKING
       /\ \A d \in Derivations :
              /\ PassBegins(d) => dependenciesState'[d] = UP_TO_DATE
              /\ PassEnds(d) => dependenciesState'[d] # NOT_TRACKING]_vars

\* C1 was tracked and then cleared: it is NOT_TRACKING with no dependency;
\* and a pass of the reaction, tracked again, has ended with a dependency
C18_Witness ==
    /\ runId["C1"] > 0
    /\ dependenciesState["C1"] = NOT_TRACKING /\ observing["C1"] = <<>>
    /\ ev.op = "track" /\ ev.d = "D" /\ runId["D"] > runId["C1"]
    /\ observing["D"] # <<>> /\ dependenciesState["D"] # NOT_TRACKING

\* C19.  Run identifiers: globalState.runId never decreases and only a
\* call of trackDerivedFunction changes it; each call increases it by one
\* and stores the new value as the runId of its derivation, changing no
\* other derivation's runId (that of an enclosing pass included); so the
\* run id of a pass is greater than that of every earlier pass and no two
\* derivations that were tracked hold the same run id.
C19_RunIdentifiers ==
    [][/\ globalRunId' >= globalRunId
       /\ \A d \in Derivations :
              PassBegins(d) =>
                  /\ globalRunId' = globalRunId + 1
                  /\ runId'[d] = globalRunId'
                  /\ \A d2 \in Derivations : runId'[d] > runId[d2]
                  /\ \A d2 \in Derivations \ {d} : runId'[d2] = runId[d2]
       /\ (\A d \in Derivations : ~PassBegins(d)) =>
              UNCHANGED <<globalRunId, runId>>
       /\ \A d \in Derivations : runId'[d] <= globalRunId'
       /\ \A d, d2 \in Derivations :
              (d # d2 /\ runId'[d] > 0) => runId'[d] # runId'[d2]
       /\ \A k \in 1..Len(stack') :
              stack'[k].kind = "track" =>
                  \A j \in (k + 1)..Len(stack') :
                      stack'[j].kind = "track" =>
                          runId'[stack'[j].d] > runId'[stack'[k].d]]_vars

\* inside the body of the reaction a pass of C2 and, nested in it, a pass of
\* C1 are in flight: three passes, three run ids in the order of the calls
C19_Witness ==
    /\ Tracking("D") /\ Tracking("C2") /\ Tracking("C1")
    /\ runId["D"] > 0
    /\ runId["C2"] = runId["D"] + 1
    /\ runId["C1"] = runId["C2"] + 1
    /\ globalRunId = runId["C1"]

\* C20.  Diff-marker neutrality: in every state, which is a state outside
\* bindDependencies, the diffValue of every cell is 0, and the newObserving
\* of a derivation that has no pass in flight is null: a bind pass leaves
\* no mark for a later one.
C20_DiffMarkerNeutrality ==
    /\ \A o \in Observables : diffValue[o] = 0
    /\ \A d \in Derivations : ~Tracking(d) => newObserving[d] = NoBuffer

\* a pass that read a new cell twice and dropped a previous dependency has
\* ended: every mark is 0 again
C20_Witness ==
    /\ ev.op = "track"
    /\ ev.reads > Len(observing[ev.d])
    /\ ev.removed >= 1 /\ ev.added >= 1
    /\ \A o \in Observables : diffValue[o] = 0
    /\ newObserving[ev.d] = NoBuffer

====
